---- MODULE Spec2Model ----
(***************************************************************************)
(* A model of the record-cleaning library of src/data_cleaning.py: the     *)
(* list helpers, the record helpers and the clean_dataset pipeline.        *)
(*                                                                         *)
(* Python values are tagged records of one shape, so that any two of them  *)
(* can be compared: None, a number (a rational n/d in lowest terms, so     *)
(* that 25 == 25.0) and a string (a sequence of one-character strings).    *)
(* A dict is the sequence of its items in insertion order, with unique     *)
(* keys.  A list of records is a sequence of object references into heap,  *)
(* because clean_dataset mutates the record objects it was handed.         *)
(***************************************************************************)
EXTENDS Integers, Sequences, FiniteSets, TLC

VARIABLES pc, heap, records, config, results, entry, prev, args, ret

vars == <<pc, heap, records, config, results, entry, prev, args, ret>>

(***************************************************************************)
(* Bounds of the model.                                                    *)
(***************************************************************************)
MaxRecords == 2
MaxData == 4
MaxNum == 2
MaxRows == 2
MaxDupRows == 3

(***************************************************************************)
(* Values.                                                                 *)
(***************************************************************************)
NoneV == [t |-> "none", n |-> 0, d |-> 1, s |-> <<>>]

NumV(num, den) == [t |-> "num", n |-> num, d |-> den, s |-> <<>>]

IntV(k) == NumV(k, 1)

StrV(chars) == [t |-> "str", n |-> 0, d |-> 1, s |-> chars]

IsNone(v) == v.t = "none"

IsStr(v) == v.t = "str"

RECURSIVE Gcd(_, _)
Gcd(a, b) == IF b = 0 THEN a ELSE Gcd(b, a % b)

Abs(x) == IF x < 0 THEN -x ELSE x

\* num / den as Python's true division of two ints, den > 0
Div(num, den) ==
  LET g == Gcd(Abs(num), den)
  IN  NumV(num \div g, den \div g)

\* a <= b on numbers
NumLeq(a, b) == a.n * b.d <= b.n * a.d

\* sum(xs) of a list of integers
RECURSIVE SumNum(_)
SumNum(xs) == IF xs = <<>> THEN 0 ELSE Head(xs).n + SumNum(Tail(xs))

(***************************************************************************)
(* Strings: str.split() with no separator and str.join.                    *)
(***************************************************************************)
Whitespace == {" "}

RECURSIVE SplitLoop(_, _, _, _)
SplitLoop(text, i, cur, words) ==
  IF i > Len(text)
    THEN IF cur = <<>> THEN words ELSE Append(words, cur)
    ELSE IF text[i] \in Whitespace
      THEN SplitLoop(text, i + 1, <<>>,
                     IF cur = <<>> THEN words ELSE Append(words, cur))
      ELSE SplitLoop(text, i + 1, Append(cur, text[i]), words)

Split(text) == SplitLoop(text, 1, <<>>, <<>>)

RECURSIVE Join(_, _)
Join(sep, words) ==
  IF words = <<>> THEN <<>>
  ELSE IF Len(words) = 1 THEN words[1]
  ELSE words[1] \o sep \o Join(sep, Tail(words))

clean_whitespace(text) == Join(<<" ">>, Split(text))

(***************************************************************************)
(* Dicts.                                                                  *)
(***************************************************************************)
Item(key, value) == [k |-> key, v |-> value]

Has(dict, key) == \E i \in DOMAIN dict : dict[i].k = key

Lookup(dict, key) == dict[CHOOSE i \in DOMAIN dict : dict[i].k = key].v

\* dict.get(key)
Get(dict, key) == IF Has(dict, key) THEN Lookup(dict, key) ELSE NoneV

\* dict[key] = value, for a key the dict holds
SetItem(dict, key, value) ==
  [i \in DOMAIN dict |-> IF dict[i].k = key THEN Item(key, value) ELSE dict[i]]

\* The field names of the model, in Python's string order.
Fields == <<"id", "name">>

FieldSet == {Fields[i] : i \in DOMAIN Fields}

Rank(key) == CHOOSE i \in DOMAIN Fields : Fields[i] = key

\* item < item as Python orders (key, value) tuples: the keys of one dict
\* differ, so the first components decide
ItemLess(a, b) == Rank(a.k) < Rank(b.k)

RECURSIVE Insert(_, _)
Insert(sorted, item) ==
  IF sorted = <<>> THEN <<item>>
  ELSE IF ItemLess(item, Head(sorted)) THEN <<item>> \o sorted
  ELSE <<Head(sorted)>> \o Insert(Tail(sorted), item)

RECURSIVE SortedItems(_)
SortedItems(dict) ==
  IF dict = <<>> THEN <<>>
  ELSE Insert(SortedItems(SubSeq(dict, 1, Len(dict) - 1)), dict[Len(dict)])

\* sorted(record.items()), an insertion sort standing for Python's stable sort
sorted_items(dict) == SortedItems(dict)

(***************************************************************************)
(* REMOVING DUPLICATES                                                     *)
(***************************************************************************)
\* a variant that never adds to seen
RECURSIVE SimpleLoopNoAdd(_, _, _, _)
SimpleLoopNoAdd(data, i, seen, result) ==
  IF i > Len(data) THEN result
  ELSE IF data[i] \notin seen
    THEN SimpleLoopNoAdd(data, i + 1, seen, Append(result, data[i]))
    ELSE SimpleLoopNoAdd(data, i + 1, seen, result)

RECURSIVE SimpleLoop(_, _, _, _)
SimpleLoop(data, i, seen, result) ==
  IF i > Len(data) THEN result
  ELSE IF data[i] \notin seen
    THEN SimpleLoop(data, i + 1, seen \cup {data[i]}, Append(result, data[i]))
    ELSE SimpleLoop(data, i + 1, seen, result)

remove_duplicates_simple(data) == SimpleLoop(data, 1, {}, <<>>)

\* a variant in which None is never a duplicate
DictSeenNotNone(seen, value) == value \in seen /\ ~IsNone(value)

\* the test of line 32
DictSeen(seen, value) == value \in seen

RECURSIVE DictLoop(_, _, _, _, _, _)
DictLoop(h, recs, key, i, seen, result) ==
  IF i > Len(recs) THEN result
  ELSE LET value == Get(h[recs[i]], key)
       IN  IF ~DictSeen(seen, value)
             THEN DictLoop(h, recs, key, i + 1, seen \cup {value},
                           Append(result, recs[i]))
             ELSE DictLoop(h, recs, key, i + 1, seen, result)

remove_duplicate_dicts(h, recs, key) == DictLoop(h, recs, key, 1, {}, <<>>)

\* a variant that does not sort the items
RowKeyUnsorted(record) == record

\* key = tuple(sorted(record.items()))
RowKey(record) == sorted_items(record)

RECURSIVE RowLoop(_, _, _, _, _)
RowLoop(h, recs, i, seen, duplicates) ==
  IF i > Len(recs) THEN duplicates
  ELSE LET key == RowKey(h[recs[i]])
       IN  IF key \in seen
             THEN RowLoop(h, recs, i + 1, seen, Append(duplicates, recs[i]))
             ELSE RowLoop(h, recs, i + 1, seen \cup {key}, duplicates)

find_duplicate_rows(h, recs) == RowLoop(h, recs, 1, {}, <<>>)

(***************************************************************************)
(* FILTERING DATA                                                          *)
(***************************************************************************)
\* a variant that excludes the upper bound
InRangeHalfOpen(x, min_val, max_val) ==
  NumLeq(min_val, x) /\ NumLeq(x, max_val) /\ x /= max_val

InRange(x, min_val, max_val) == NumLeq(min_val, x) /\ NumLeq(x, max_val)

filter_by_range(data, min_val, max_val) ==
  SelectSeq(data, LAMBDA x : InRange(x, min_val, max_val))

\* the loop of lines 66-70: match stays True iff no criteria item differs
Matches(record, criteria) ==
  \A i \in DOMAIN criteria : ~(Get(record, criteria[i].k) /= criteria[i].v)

filter_records_by_criteria(h, recs, criteria) ==
  SelectSeq(recs, LAMBDA r : Matches(h[r], criteria))

(***************************************************************************)
(* HANDLING MISSING VALUES                                                 *)
(***************************************************************************)
\* a variant with floor division
MeanFloor(valid_values) == IntV(SumNum(valid_values) \div Len(valid_values))

\* sum(valid_values) / len(valid_values)
Mean(valid_values) == Div(SumNum(valid_values), Len(valid_values))

FillWith(data, fill_value) ==
  [i \in DOMAIN data |-> IF ~IsNone(data[i]) THEN data[i] ELSE fill_value]

fill_missing_values(data, fill_value) ==
  IF IsNone(fill_value)
    THEN LET valid_values == SelectSeq(data, LAMBDA x : ~IsNone(x))
         IN  IF valid_values = <<>> THEN data
             ELSE FillWith(data, Mean(valid_values))
    ELSE FillWith(data, fill_value)

\* a variant that lets the empty string pass
FieldMissingNoEmpty(record, field) ==
  \/ ~Has(record, field)
  \/ IsNone(Lookup(record, field))

\* the test of line 135
FieldMissing(record, field) ==
  \/ ~Has(record, field)
  \/ IsNone(Lookup(record, field))
  \/ Lookup(record, field) = StrV(<<>>)

HasAllFields(record, required_fields) ==
  \A i \in DOMAIN required_fields : ~FieldMissing(record, required_fields[i])

remove_records_with_missing_fields(h, recs, required_fields) ==
  SelectSeq(recs, LAMBDA r : HasAllFields(h[r], required_fields))

(***************************************************************************)
(* Helpers of the specifications and of the properties.                    *)
(***************************************************************************)
SeqsUpTo(S, n) == UNION {[1..k -> S] : k \in 0..n}

Range(seq) == {seq[i] : i \in DOMAIN seq}

RECURSIVE PickFrom(_, _, _)
PickFrom(seq, I, i) ==
  IF i > Len(seq) THEN <<>>
  ELSE (IF i \in I THEN <<seq[i]>> ELSE <<>>) \o PickFrom(seq, I, i + 1)

\* the subsequence of seq at the positions I, in order
Pick(seq, I) == PickFrom(seq, I, 1)

NoRepeat(seq) == \A i, j \in DOMAIN seq : i /= j => seq[i] /= seq[j]

\* the variables of the pipeline, unused by a call of a library function
NoPipeline ==
  /\ records = <<>>
  /\ config = <<>>
  /\ results = <<>>
  /\ entry = <<>>
  /\ prev = <<>>

Returns(value) ==
  /\ pc = "call"
  /\ pc' = "return"
  /\ ret' = value
  /\ UNCHANGED <<heap, records, config, results, entry, prev, args>>

(***************************************************************************)
(* remove_duplicates_simple(data)                                          *)
(***************************************************************************)
HashableItems == {IntV(k) : k \in 1..MaxNum} \cup {NoneV, StrV(<<"a">>)}

\* data_with_dupes of run_examples
DataWithDupes ==
  <<IntV(1), IntV(2), IntV(3), IntV(2), IntV(4), IntV(5), IntV(3), IntV(6),
    IntV(1)>>

InitSimple ==
  /\ pc = "call"
  /\ heap = <<>>
  /\ args \in {[data |-> d] : d \in SeqsUpTo(HashableItems, MaxData) \cup {DataWithDupes}}
  /\ ret = <<>>
  /\ NoPipeline

CallSimple == Returns(remove_duplicates_simple(args.data))

SpecSimple == InitSimple /\ [][CallSimple]_vars

FirstOccurrences(data) ==
  {i \in DOMAIN data : \A j \in 1..(i - 1) : data[j] /= data[i]}

\* C4: remove_duplicates_simple(S) has no repeated element, holds every
\* distinct element of S exactly once, and is the subsequence of S made of the
\* first occurrence of each element, in the original order.
C4_FirstOccurrenceSubsequence ==
  pc = "return" =>
    /\ NoRepeat(ret)
    /\ \A x \in Range(args.data) :
         Cardinality({i \in DOMAIN ret : ret[i] = x}) = 1
    /\ Range(ret) \subseteq Range(args.data)
    /\ ret = Pick(args.data, FirstOccurrences(args.data))

\* a call on the list of run_examples, which holds repeats between distinct
\* elements, returned [1, 2, 3, 4, 5, 6]
C4_Witness ==
  /\ pc = "return"
  /\ args.data = DataWithDupes
  /\ ret = <<IntV(1), IntV(2), IntV(3), IntV(4), IntV(5), IntV(6)>>

(***************************************************************************)
(* filter_by_range(data, min_val, max_val)                                 *)
(***************************************************************************)
Numbers == {IntV(k) : k \in 0..MaxNum}

\* the bounds are floats: a bound between two integers is one of them
RangeBounds == Numbers \cup {Div(1, 2)}

InitRange ==
  /\ pc = "call"
  /\ heap = <<>>
  /\ args \in [data : SeqsUpTo(Numbers, MaxData), min_val : RangeBounds,
               max_val : RangeBounds]
  /\ ret = <<>>
  /\ NoPipeline

CallRange == Returns(filter_by_range(args.data, args.min_val, args.max_val))

SpecRange == InitRange /\ [][CallRange]_vars

Within(x, lo, hi) == lo.n * x.d <= x.n * lo.d /\ x.n * hi.d <= hi.n * x.d

\* C5: filter_by_range returns exactly the subsequence of data whose elements
\* lie in [min_val, max_val], both bounds included, in the original order
\* with multiplicities, never a value outside, and [] for [].
C5_ExactInclusiveSubsequence ==
  pc = "return" =>
    /\ ret = Pick(args.data,
                  {i \in DOMAIN args.data :
                     Within(args.data[i], args.min_val, args.max_val)})
    /\ \A i \in DOMAIN ret : Within(ret[i], args.min_val, args.max_val)
    /\ args.data = <<>> => ret = <<>>

\* a call that kept an element equal to each bound, kept one twice and dropped
\* one outside
C5_Witness ==
  /\ pc = "return"
  /\ args.min_val /= args.max_val
  /\ \E i, j \in DOMAIN ret : i /= j /\ ret[i] = args.min_val /\ ret[j] = ret[i]
  /\ \E i \in DOMAIN ret : ret[i] = args.max_val
  /\ Len(ret) < Len(args.data)

(***************************************************************************)
(* Lists of records: the heap holds one object per position of the list.   *)
(***************************************************************************)
Ids(n) == [i \in 1..n |-> i]

Reverse(seq) == [i \in DOMAIN seq |-> seq[Len(seq) + 1 - i]]

\* the dict with the keys K, in the order of Fields, valued by f
DictOf(K, f) ==
  Pick([i \in DOMAIN Fields |->
          Item(Fields[i], IF Fields[i] \in K THEN f[Fields[i]] ELSE NoneV)],
       {i \in DOMAIN Fields : Fields[i] \in K})

\* every dict over a subset of the fields with values in vals, keys in the
\* order of Fields
DictsOver(vals) ==
  {DictOf(K, f) : K \in SUBSET FieldSet, f \in [FieldSet -> vals]}

\* the same with the keys in either insertion order (Fields has two names)
OrderedDictsOver(vals) ==
  DictsOver(vals) \cup {Reverse(dict) : dict \in DictsOver(vals)}

FieldValues == {NoneV, IntV(0), StrV(<<>>), StrV(<<"a">>)}

InitRecords(universe, maxRows, argSet) ==
  /\ pc = "call"
  /\ \E n \in 0..maxRows :
       /\ heap \in [1..n -> universe]
       /\ args \in {[records |-> Ids(n), arg |-> a] : a \in argSet}
  /\ ret = <<>>
  /\ NoPipeline

\* record.get(key) of the i-th record of the argument
ArgGet(i, key) == Get(heap[args.records[i]], key)

ArgHas(i, key) == Has(heap[args.records[i]], key)

(***************************************************************************)
(* filter_records_by_criteria(records, criteria)                           *)
(***************************************************************************)
InitCriteria ==
  InitRecords(DictsOver(FieldValues \ {StrV(<<>>)}), MaxRows,
              DictsOver({NoneV, IntV(0), StrV(<<"a">>)}))

CallCriteria == Returns(filter_records_by_criteria(heap, args.records, args.arg))

SpecCriteria == InitCriteria /\ [][CallCriteria]_vars

\* C6: filter_records_by_criteria keeps a record iff the record matches every
\* (field, value) pair of criteria, and a record that lacks a criteria field
\* does not match and is dropped, whatever the criteria value (None too).
C6_MissingFieldNeverMatches ==
  pc = "return" =>
    ret = Pick(args.records,
               {i \in DOMAIN args.records :
                  \A c \in Range(args.arg) :
                    ArgHas(i, c.k) /\ ArgGet(i, c.k) = c.v})

(***************************************************************************)
(* remove_duplicate_dicts(records, key)                                    *)
(***************************************************************************)
InitDicts ==
  InitRecords(DictsOver(FieldValues \ {StrV(<<>>)}), MaxDupRows, FieldSet)

CallDicts == Returns(remove_duplicate_dicts(heap, args.records, args.arg))

SpecDicts == InitDicts /\ [][CallDicts]_vars

KeyAbsentOrNone(i) ==
  ~ArgHas(i, args.arg) \/ IsNone(Lookup(heap[args.records[i]], args.arg))

\* the value of record[key], None standing for a missing key
KeyValue(i) ==
  IF ArgHas(i, args.arg) THEN Lookup(heap[args.records[i]], args.arg) ELSE NoneV

\* C7: remove_duplicate_dicts returns the first record for each distinct
\* value of record[key], in the original order; a missing key counts as None,
\* so of the records whose key is missing or None only the first is kept.
C7_FirstPerKeyValue ==
  pc = "return" =>
    /\ ret = Pick(args.records,
                  {i \in DOMAIN args.records :
                     \A j \in 1..(i - 1) : KeyValue(j) /= KeyValue(i)})
    /\ \A i \in DOMAIN args.records :
         KeyAbsentOrNone(i) =>
           (args.records[i] \in Range(ret)
              <=> \A j \in 1..(i - 1) : ~KeyAbsentOrNone(j))

\* a call on three records, the first with the key None and the later two
\* without the key, kept the first and dropped both later ones
C7_Witness ==
  /\ pc = "return"
  /\ Len(args.records) = 3
  /\ ArgHas(1, args.arg) /\ KeyAbsentOrNone(1)
  /\ ~ArgHas(2, args.arg) /\ ~ArgHas(3, args.arg)
  /\ ret = <<args.records[1]>>

(***************************************************************************)
(* find_duplicate_rows(records)                                            *)
(***************************************************************************)
InitRows ==
  InitRecords(OrderedDictsOver({IntV(0), StrV(<<"a">>)}), MaxDupRows, {NoneV})

CallRows == Returns(find_duplicate_rows(heap, args.records))

SpecRows == InitRows /\ [][CallRows]_vars

\* the set of (field, value) pairs of the i-th record
Pairs(i) == Range(heap[args.records[i]])

\* C10: find_duplicate_rows returns, in the original order, exactly the
\* records that are a second or later occurrence of a record with the same
\* set of (field, value) pairs, whatever the order of the fields; so its
\* length is len(records) minus the number of distinct records.
C10_LaterOccurrences ==
  pc = "return" =>
    /\ ret = Pick(args.records,
                  {i \in DOMAIN args.records :
                     \E j \in 1..(i - 1) : Pairs(j) = Pairs(i)})
    /\ Len(ret) = Len(args.records)
                    - Cardinality({Pairs(i) : i \in DOMAIN args.records})

\* a call on three records with the same two pairs, the second with its
\* fields in the other order, returned the second and the third
C10_Witness ==
  /\ pc = "return"
  /\ Len(args.records) = 3
  /\ Len(heap[1]) = 2
  /\ heap[2] = Reverse(heap[1])
  /\ heap[3] = heap[1]
  /\ ret = <<args.records[2], args.records[3]>>

(***************************************************************************)
(* remove_records_with_missing_fields(records, required_fields)            *)
(***************************************************************************)
RequiredLists == {<<>>, <<"id">>, <<"name">>, <<"id", "name">>, <<"name", "id">>}

InitMissing == InitRecords(DictsOver(FieldValues), MaxRows, RequiredLists)

CallMissing ==
  Returns(remove_records_with_missing_fields(heap, args.records, args.arg))

SpecMissing == InitMissing /\ [][CallMissing]_vars

Present(i, field) ==
  /\ ArgHas(i, field)
  /\ ArgGet(i, field) /= NoneV
  /\ ArgGet(i, field) /= StrV(<<>>)

\* C9: remove_records_with_missing_fields keeps a record iff every required
\* field is present in it with a value that is neither None nor the empty
\* string, and returns the kept records in the original order.
C9_AllRequiredPresent ==
  pc = "return" =>
    ret = Pick(args.records,
               {i \in DOMAIN args.records :
                  \A f \in Range(args.arg) : Present(i, f)})

\* a call with two required fields dropped a record whose only fault is an
\* empty string in the second one, and kept the record after it, whose
\* values are 0 and "a"
C9_Witness ==
  /\ pc = "return"
  /\ args.arg = <<"id", "name">>
  /\ Len(args.records) = 2
  /\ Present(1, "id") /\ ArgGet(1, "name") = StrV(<<>>)
  /\ ArgGet(2, "id") = IntV(0) /\ ArgGet(2, "name") = StrV(<<"a">>)
  /\ ret = <<args.records[2]>>

(***************************************************************************)
(* fill_missing_values(data, fill_value)                                   *)
(***************************************************************************)
\* data_with_nulls of run_examples
DataWithNulls == <<IntV(10), NoneV, IntV(20), NoneV, IntV(30), IntV(40)>>

InitFill ==
  /\ pc = "call"
  /\ heap = <<>>
  /\ args \in [data : SeqsUpTo(Numbers \cup {NoneV}, MaxData) \cup {DataWithNulls},
               fill_value : {NoneV, IntV(0)}]
  /\ ret = <<>>
  /\ NoPipeline

CallFill == Returns(fill_missing_values(args.data, args.fill_value))

SpecFill == InitFill /\ [][CallFill]_vars

NonMissing(data) == {i \in DOMAIN data : data[i] /= NoneV}

RECURSIVE SumOver(_, _)
SumOver(data, I) ==
  IF I = {} THEN 0
  ELSE LET i == CHOOSE i \in I : TRUE
       IN  data[i].n + SumOver(data, I \ {i})

\* C8: with no explicit fill value, fill_missing_values returns a sequence of
\* the same length with every non-missing entry unchanged and every None
\* replaced by the mean of the non-missing entries; when every entry is None
\* (or there is none) it returns the input unchanged, None entries included.
C8_FillWithMean ==
  pc = "return" /\ args.fill_value = NoneV =>
    LET data == args.data
        valid == NonMissing(data)
    IN  /\ Len(ret) = Len(data)
        /\ \A i \in valid : ret[i] = data[i]
        /\ valid /= {} =>
             \A i \in DOMAIN data \ valid :
               /\ ret[i].t = "num"
               /\ ret[i].n * Cardinality(valid) = SumOver(data, valid) * ret[i].d
        /\ valid = {} => ret = data

\* the call of run_examples returned [10, 25.0, 20, 25.0, 30, 40]
C8_Witness ==
  /\ pc = "return"
  /\ args = [data |-> DataWithNulls, fill_value |-> NoneV]
  /\ ret = <<IntV(10), IntV(25), IntV(20), IntV(25), IntV(30), IntV(40)>>

\* a call on a list of None entries returned it unchanged
C8_WitnessAllMissing ==
  /\ pc = "return"
  /\ args = [data |-> <<NoneV, NoneV>>, fill_value |-> NoneV]
  /\ ret = <<NoneV, NoneV>>

(***************************************************************************)
(* COMPREHENSIVE CLEANING PIPELINE: clean_dataset(records, config), one    *)
(* action per stage of the function body.                                  *)
(***************************************************************************)
\* config.get('remove_duplicates') and config.get('duplicate_key')
DuplicatesEnabled(cfg) ==
  /\ Has(cfg, "remove_duplicates") /\ Lookup(cfg, "remove_duplicates")
  /\ Has(cfg, "duplicate_key") /\ Lookup(cfg, "duplicate_key") /= ""

\* config.get(key) for a key that holds a list or a dict
Enabled(cfg, key) == Has(cfg, key) /\ Lookup(cfg, key) /= <<>>

\* a variant that cleans every field of the record
RECURSIVE NormalizeEveryField(_, _, _)
NormalizeEveryField(record, string_fields, i) ==
  IF i > Len(record) THEN record
  ELSE NormalizeEveryField(
         IF IsStr(record[i].v)
           THEN SetItem(record, record[i].k,
                        StrV(clean_whitespace(record[i].v.s)))
           ELSE record,
         string_fields, i + 1)

\* the loop of lines 300-302 over one record, from the i-th string field on
RECURSIVE NormalizeLoop(_, _, _)
NormalizeLoop(record, string_fields, i) ==
  IF i > Len(string_fields) THEN record
  ELSE LET field == string_fields[i]
       IN  NormalizeLoop(
             IF Has(record, field) /\ IsStr(Lookup(record, field))
               THEN SetItem(record, field,
                            StrV(clean_whitespace(Lookup(record, field).s)))
               ELSE record,
             string_fields, i + 1)

NormalizeRecord(record, string_fields) == NormalizeLoop(record, string_fields, 1)

\* a variant that cleans every record of the list of the caller
NormalizeCallerList(h, cleaned_data, string_fields) ==
  [o \in DOMAIN h |->
     IF o \in Range(records) THEN NormalizeRecord(h[o], string_fields)
     ELSE h[o]]

\* the loop of lines 299-302: the records of cleaned_data are cleaned in place
NormalizeHeap(h, cleaned_data, string_fields) ==
  [o \in DOMAIN h |->
     IF o \in Range(cleaned_data) THEN NormalizeRecord(h[o], string_fields)
     ELSE h[o]]

\* a variant that filters before it cleans the strings
StageOrderFilterFirst == <<"duplicates", "missing", "filters", "strings">>

\* the order of the four blocks of lines 279-311
StageOrder == <<"duplicates", "missing", "strings", "filters">>

After(stage) ==
  LET i == CHOOSE i \in DOMAIN StageOrder : StageOrder[i] = stage
  IN  IF i < Len(StageOrder) THEN StageOrder[i + 1] ELSE "final"

\* before - len(results['cleaned_data']) with a stale before
RemovedStale(before, after) == results.original_count - after

\* before - len(results['cleaned_data'])
Removed(before, after) == before - after

Enter ==
  /\ pc = "idle"
  /\ results' = [original_count |-> Len(records),
                 cleaned_data |-> records,
                 removed_duplicates |-> 0,
                 removed_missing |-> 0,
                 removed_invalid |-> 0]
  /\ entry' = [heap |-> heap, records |-> records]
  /\ pc' = StageOrder[1]
  /\ UNCHANGED <<heap, records, config, prev, args, ret>>

DuplicatesStage ==
  /\ pc = "duplicates"
  /\ results' =
       IF DuplicatesEnabled(config)
         THEN LET cleaned == remove_duplicate_dicts(
                               heap, results.cleaned_data,
                               Lookup(config, "duplicate_key"))
              IN  [results EXCEPT
                     !.cleaned_data = cleaned,
                     !.removed_duplicates =
                        Removed(Len(results.cleaned_data), Len(cleaned))]
         ELSE results
  /\ pc' = After("duplicates")
  /\ UNCHANGED <<heap, records, config, entry, prev, args, ret>>

MissingStage ==
  /\ pc = "missing"
  /\ results' =
       IF Enabled(config, "required_fields")
         THEN LET cleaned == remove_records_with_missing_fields(
                               heap, results.cleaned_data,
                               Lookup(config, "required_fields"))
              IN  [results EXCEPT
                     !.cleaned_data = cleaned,
                     !.removed_missing =
                        Removed(Len(results.cleaned_data), Len(cleaned))]
         ELSE results
  /\ pc' = After("missing")
  /\ UNCHANGED <<heap, records, config, entry, prev, args, ret>>

StringsStage ==
  /\ pc = "strings"
  /\ heap' =
       IF Enabled(config, "string_fields")
         THEN NormalizeHeap(heap, results.cleaned_data,
                            Lookup(config, "string_fields"))
         ELSE heap
  /\ pc' = After("strings")
  /\ UNCHANGED <<records, config, results, entry, prev, args, ret>>

FiltersStage ==
  /\ pc = "filters"
  /\ results' =
       IF Enabled(config, "filters")
         THEN LET cleaned == filter_records_by_criteria(
                               heap, results.cleaned_data,
                               Lookup(config, "filters"))
              IN  [results EXCEPT
                     !.cleaned_data = cleaned,
                     !.removed_invalid =
                        Removed(Len(results.cleaned_data), Len(cleaned))]
         ELSE results
  /\ pc' = After("filters")
  /\ UNCHANGED <<heap, records, config, entry, prev, args, ret>>

Finish ==
  /\ pc = "final"
  /\ LET final_count == Len(results.cleaned_data)
     IN  results' = ("final_count" :> final_count
                     @@ "total_removed" :> results.original_count - final_count
                     @@ results)
  /\ pc' = "done"
  /\ UNCHANGED <<heap, records, config, entry, prev, args, ret>>

\* the caller passes the cleaned_data of the first call to a second call
\* with the same config
CallAgain ==
  /\ pc = "done"
  /\ prev = <<>>
  /\ prev' = <<[results |-> results, heap |-> heap]>>
  /\ records' = results.cleaned_data
  /\ pc' = "idle"
  /\ UNCHANGED <<heap, config, results, entry, args, ret>>

PipelineValues == {NoneV, StrV(<<"a">>), StrV(<<" ", "a">>), StrV(<<" ">>)}

DuplicatesOptions ==
  {<<>>, <<Item("remove_duplicates", TRUE), Item("duplicate_key", "id")>>}

RequiredOptions ==
  {<<>>, <<Item("required_fields", <<"id">>)>>,
   <<Item("required_fields", <<"name">>)>>}

StringsOptions ==
  {<<>>, <<Item("string_fields", <<"name">>)>>,
   <<Item("string_fields", <<"id", "name">>)>>}

FiltersOptions ==
  {<<>>, <<Item("filters", <<Item("name", StrV(<<"a">>))>>)>>}

\* configs whose options are half set or empty, and the config of
\* run_examples with its keys in the opposite order
OtherConfigs ==
  {<<Item("remove_duplicates", TRUE)>>,
   <<Item("remove_duplicates", FALSE), Item("duplicate_key", "id")>>,
   <<Item("duplicate_key", "id")>>,
   <<Item("required_fields", <<>>), Item("string_fields", <<>>),
     Item("filters", <<>>)>>,
   <<Item("filters", <<Item("id", NoneV)>>)>>,
   <<Item("string_fields", <<"name">>),
     Item("required_fields", <<"name", "id">>),
     Item("duplicate_key", "id"), Item("remove_duplicates", TRUE)>>}

Configs ==
  {d \o r \o s \o f : d \in DuplicatesOptions, r \in RequiredOptions,
                       s \in StringsOptions, f \in FiltersOptions}
    \cup OtherConfigs

\* the lists of up to MaxRecords references to n record objects that hold
\* every object, the objects numbered in the order the list first holds
\* them: a list may hold the same object more than once
CallerLists(n) ==
  {list \in SeqsUpTo(1..n, MaxRecords) :
     Pick(list, FirstOccurrences(list)) = Ids(n)}

Init ==
  /\ pc = "idle"
  /\ \E n \in 0..MaxRecords :
       /\ heap \in [1..n -> DictsOver(PipelineValues)]
       /\ records \in CallerLists(n)
  /\ config \in Configs
  /\ results = <<>>
  /\ entry = <<>>
  /\ prev = <<>>
  /\ args = <<>>
  /\ ret = <<>>

Next ==
  \/ Enter
  \/ DuplicatesStage
  \/ MissingStage
  \/ StringsStage
  \/ FiltersStage
  \/ Finish
  \/ CallAgain

Spec == Init /\ [][Next]_vars

Done == pc = "done"

SecondCallDone == pc = "done" /\ prev /= <<>>

\* C1: the result of clean_dataset satisfies original_count - total_removed
\* == final_count, final_count == len(cleaned_data), and total_removed ==
\* removed_duplicates + removed_missing + removed_invalid, a stage that is
\* not configured contributing zero.
C1_CountsAddUp ==
  Done =>
    /\ results.original_count = Len(records)
    /\ results.original_count - results.total_removed = results.final_count
    /\ results.final_count = Len(results.cleaned_data)
    /\ results.total_removed =
         results.removed_duplicates + results.removed_missing
           + results.removed_invalid
    /\ ~DuplicatesEnabled(config) => results.removed_duplicates = 0
    /\ ~Enabled(config, "required_fields") => results.removed_missing = 0
    /\ ~Enabled(config, "filters") => results.removed_invalid = 0

\* a call with no filters configured removed one record as a duplicate and
\* then one for a missing field
C1_Witness ==
  /\ Done
  /\ ~Enabled(config, "filters")
  /\ results.removed_duplicates = 1
  /\ results.removed_missing = 1
  /\ results.total_removed = 2
  /\ results.final_count = Len(records) - 2

\* the stages of lines 279-311 composed in the order duplicates, missing
\* fields, strings, filters, from the heap h0 and the list R0 of the call
Composed(h0, R0, cfg) ==
  LET s1 == IF DuplicatesEnabled(cfg)
              THEN remove_duplicate_dicts(h0, R0, Lookup(cfg, "duplicate_key"))
              ELSE R0
      s2 == IF Enabled(cfg, "required_fields")
              THEN remove_records_with_missing_fields(
                     h0, s1, Lookup(cfg, "required_fields"))
              ELSE s1
      h3 == IF Enabled(cfg, "string_fields")
              THEN NormalizeHeap(h0, s2, Lookup(cfg, "string_fields"))
              ELSE h0
      s4 == IF Enabled(cfg, "filters")
              THEN filter_records_by_criteria(h3, s2, Lookup(cfg, "filters"))
              ELSE s2
  IN  [heap |-> h3,
       cleaned_data |-> s4,
       removed_duplicates |-> Len(R0) - Len(s1),
       removed_missing |-> Len(s1) - Len(s2),
       removed_invalid |-> Len(s2) - Len(s4)]

\* C3: whatever the order of the keys of config, clean_dataset runs its
\* enabled stages in the order duplicate removal, required fields, string
\* normalization, criteria filter: cleaned_data and the counts of the stages
\* are those of the stages composed in that order on the input.
C3_FixedStageOrder ==
  Done =>
    \A cfg \in {config, Reverse(config)} :
      LET c == Composed(entry.heap, entry.records, cfg)
      IN  /\ results.cleaned_data = c.cleaned_data
          /\ heap = c.heap
          /\ results.removed_duplicates = c.removed_duplicates
          /\ results.removed_missing = c.removed_missing
          /\ results.removed_invalid = c.removed_invalid

\* under a config whose keys come in the order strings, required, duplicates,
\* the first of two records with the same id lacks the name: it made the
\* second a duplicate and was then dropped itself
C3_Witness ==
  /\ Done
  /\ prev = <<>>
  /\ DuplicatesEnabled(config) /\ Enabled(config, "required_fields")
  /\ config[1].k = "string_fields"
  /\ records = <<1, 2>>
  /\ Get(entry.heap[1], "id") = Get(entry.heap[2], "id")
  /\ ~Has(entry.heap[1], "name")
  /\ HasAllFields(entry.heap[2], Lookup(config, "required_fields"))
  /\ results.removed_duplicates = 1
  /\ results.removed_missing = 1
  /\ results.cleaned_data = <<>>

\* a record whose name is " a" passed the filter name == "a"
C3_WitnessFilter ==
  /\ Done
  /\ Enabled(config, "filters")
  /\ Len(records) = 1
  /\ Get(entry.heap[1], "name") = StrV(<<" ", "a">>)
  /\ Lookup(config, "filters") = <<Item("name", StrV(<<"a">>))>>
  /\ results.cleaned_data = records

\* the second call removed nothing and returned the records of the first,
\* unchanged
SecondCallRemovesNothing ==
  /\ results.total_removed = 0
  /\ results.cleaned_data = prev[1].results.cleaned_data
  /\ heap = prev[1].heap

\* C2 as stated: clean_dataset is idempotent for every list of records and
\* every config, also when duplicate_key or a required field is listed in
\* string_fields and holds values that differ only in whitespace or are
\* whitespace-only.
C2_Idempotent == SecondCallDone => SecondCallRemovesNothing

\* string normalization touches neither the duplicate key in use nor a
\* required field
KeysNotNormalized(cfg) ==
  Enabled(cfg, "string_fields") =>
    LET string_fields == Range(Lookup(cfg, "string_fields"))
    IN  /\ DuplicatesEnabled(cfg) =>
             Lookup(cfg, "duplicate_key") \notin string_fields
        /\ Enabled(cfg, "required_fields") =>
             Range(Lookup(cfg, "required_fields")) \cap string_fields = {}

\* C2 amended: clean_dataset is idempotent whenever string_fields holds
\* neither the duplicate_key of an enabled duplicate removal nor a required
\* field: the second call then removes no record and returns the same
\* sequence of records.
C2_IdempotentUnlessKeysNormalized ==
  SecondCallDone /\ KeysNotNormalized(config) => SecondCallRemovesNothing

\* with duplicates, required fields, strings and filters all enabled and the
\* keys not normalized, the first call removed a record and cleaned a name,
\* and the second call removed nothing
C2_Witness ==
  /\ SecondCallDone
  /\ KeysNotNormalized(config)
  /\ DuplicatesEnabled(config)
  /\ Enabled(config, "required_fields")
  /\ Enabled(config, "string_fields")
  /\ Enabled(config, "filters")
  /\ prev[1].results.total_removed = 1
  /\ Len(records) = 1
  /\ \E o \in DOMAIN heap : Get(heap[o], "name") = StrV(<<"a">>)
  /\ results.total_removed = 0

(***************************************************************************)
(* group_by_property(items, key) of src/data_transformations.py.  The      *)
(* result is a dict from group key to the list of the items of the group.  *)
(***************************************************************************)
\* a variant that starts the group again at every item
AddToGroupOverwrite(grouped, group_key, item) ==
  LET g == IF ~Has(grouped, group_key)
             THEN Append(grouped, Item(group_key, <<>>))
             ELSE grouped
  IN  SetItem(g, group_key, <<item>>)

\* lines 87-89: the group is created when its key is new, the item appended
AddToGroup(grouped, group_key, item) ==
  LET g == IF ~Has(grouped, group_key)
             THEN Append(grouped, Item(group_key, <<>>))
             ELSE grouped
  IN  SetItem(g, group_key, Append(Lookup(g, group_key), item))

RECURSIVE GroupLoop(_, _, _, _, _)
GroupLoop(h, items, key, i, grouped) ==
  IF i > Len(items) THEN grouped
  ELSE GroupLoop(h, items, key, i + 1,
                 AddToGroup(grouped, Get(h[items[i]], key), items[i]))

group_by_property(h, items, key) == GroupLoop(h, items, key, 1, <<>>)

InitGroup ==
  InitRecords(DictsOver(FieldValues \ {StrV(<<>>)}), MaxDupRows, FieldSet)

CallGroup == Returns(group_by_property(heap, args.records, args.arg))

SpecGroup == InitGroup /\ [][CallGroup]_vars

\* the group keys of the items of the argument, in the order of the items
ItemKeys == [i \in DOMAIN args.records |-> KeyValue(i)]

\* C11: group_by_property partitions items: every item is in exactly one
\* group, the one keyed by item.get(key) (None when the key is missing); the
\* groups come in the order their key was first seen and the items of a
\* group keep their input order.
C11_PartitionInOrder ==
  pc = "return" =>
    /\ [g \in DOMAIN ret |-> ret[g].k] = Pick(ItemKeys, FirstOccurrences(ItemKeys))
    /\ \A g \in DOMAIN ret :
         ret[g].v = Pick(args.records,
                         {i \in DOMAIN args.records : ItemKeys[i] = ret[g].k})
    /\ \A i \in DOMAIN args.records :
         Cardinality({<<g, j>> \in (DOMAIN ret) \X (1..Len(args.records)) :
                        j \in DOMAIN ret[g].v /\ ret[g].v[j] = args.records[i]})
           = 1

\* of three items the first and the third hold the same key and the second
\* lacks it: the groups are that key with the first and the third item, then
\* None with the second
C11_Witness ==
  /\ pc = "return"
  /\ Len(args.records) = 3
  /\ ArgHas(1, args.arg) /\ ~KeyAbsentOrNone(1)
  /\ ~ArgHas(2, args.arg)
  /\ KeyValue(3) = KeyValue(1)
  /\ ret = <<Item(KeyValue(1), <<args.records[1], args.records[3]>>),
             Item(NoneV, <<args.records[2]>>)>>

(***************************************************************************)
(* Arithmetic on numbers, and sorted(numbers).                             *)
(***************************************************************************)
NumAdd(a, b) == Div(a.n * b.d + b.n * a.d, a.d * b.d)

NumSub(a, b) == Div(a.n * b.d - b.n * a.d, a.d * b.d)

NumMul(a, b) == Div(a.n * b.n, a.d * b.d)

\* a / k for an int k > 0
NumOver(a, k) == Div(a.n, a.d * k)

RECURSIVE SumOf(_)
SumOf(xs) == IF xs = <<>> THEN IntV(0) ELSE NumAdd(Head(xs), SumOf(Tail(xs)))

IsSquare(k) == \E r \in 0..k : r * r = k

Root(k) == CHOOSE r \in 0..k : r * r = k

\* x ** 0.5 for x >= 0: the root when it is rational; otherwise the float
\* nearest to the root, kept as the root of x
Sqrt(x) ==
  IF IsSquare(x.n) /\ IsSquare(x.d) THEN NumV(Root(x.n), Root(x.d))
  ELSE [t |-> "sqrt", n |-> x.n, d |-> x.d, s |-> <<>>]

RECURSIVE InsertNum(_, _)
InsertNum(sorted, x) ==
  IF sorted = <<>> THEN <<x>>
  ELSE IF ~NumLeq(Head(sorted), x) THEN <<x>> \o sorted
  ELSE <<Head(sorted)>> \o InsertNum(Tail(sorted), x)

RECURSIVE SortNums(_)
SortNums(xs) ==
  IF xs = <<>> THEN <<>>
  ELSE InsertNum(SortNums(SubSeq(xs, 1, Len(xs) - 1)), xs[Len(xs)])

\* a variant that leaves the list as it is
unsorted(xs) == xs

\* sorted(xs) of a list of numbers
sorted(xs) == SortNums(xs)

(***************************************************************************)
(* calculate_statistics(numbers) of src/data_transformations.py.           *)
(***************************************************************************)
\* a variant that takes the upper middle element of an even count
MedianUpper(sorted_nums) == sorted_nums[Len(sorted_nums) \div 2 + 1]

\* line 102, on Python's indices from 0
Median(sorted_nums) ==
  LET n == Len(sorted_nums)
  IN  IF n % 2 = 1 THEN sorted_nums[n \div 2 + 1]
      ELSE NumOver(NumAdd(sorted_nums[n \div 2], sorted_nums[n \div 2 + 1]), 2)

\* sum((x - mean) ** 2 for x in numbers) / n
Variance(numbers, mean) ==
  NumOver(SumOf([i \in DOMAIN numbers |->
                   NumMul(NumSub(numbers[i], mean), NumSub(numbers[i], mean))]),
          Len(numbers))

calculate_statistics(numbers) ==
  IF numbers = <<>>
    THEN [mean |-> IntV(0), median |-> IntV(0), std_dev |-> IntV(0)]
    ELSE LET sorted_nums == sorted(numbers)
             n == Len(numbers)
             mean == NumOver(SumOf(numbers), n)
         IN  [mean |-> mean,
              median |-> Median(sorted_nums),
              std_dev |-> Sqrt(Variance(numbers, mean))]

\* the list run_examples passes to calculate_statistics
StatisticsExample == <<IntV(10), IntV(20), IntV(30), IntV(40), IntV(50)>>

InitStatistics ==
  /\ pc = "call"
  /\ heap = <<>>
  /\ args \in {[numbers |-> xs] :
                 xs \in SeqsUpTo(Numbers \cup {IntV(-1)}, MaxData)
                          \cup {StatisticsExample}}
  /\ ret = <<>>
  /\ NoPipeline

CallStatistics == Returns(calculate_statistics(args.numbers))

SpecStatistics == InitStatistics /\ [][CallStatistics]_vars

Less(a, b) == a.n * b.d < b.n * a.d

\* the k-th smallest element of a non-empty list, k from 1
KthSmallest(xs, k) ==
  CHOOSE x \in Range(xs) :
    /\ Cardinality({i \in DOMAIN xs : Less(xs[i], x)}) < k
    /\ Cardinality({i \in DOMAIN xs : ~Less(x, xs[i])}) >= k

\* C12: calculate_statistics returns as median the middle element of the
\* sorted input for an odd count and the average of its two middle elements
\* for an even count, as mean the sum divided by the count, and for the
\* empty input mean = median = std_dev = 0.
C12_MeanAndMedian ==
  pc = "return" =>
    LET xs == args.numbers
        n == Len(xs)
    IN  /\ n = 0 => ret = [mean |-> IntV(0), median |-> IntV(0),
                           std_dev |-> IntV(0)]
        /\ n > 0 =>
             /\ ret.mean.t = "num"
             /\ ret.mean.n * n = SumNum(xs) * ret.mean.d
             /\ ret.median.t = "num"
             /\ n % 2 = 1 => ret.median = KthSmallest(xs, (n + 1) \div 2)
             /\ n % 2 = 0 =>
                  2 * ret.median.n =
                    (KthSmallest(xs, n \div 2).n
                       + KthSmallest(xs, n \div 2 + 1).n) * ret.median.d

\* the list of spec.md gives mean 30, median 30 and the root of 200 (14.14)
C12_Witness ==
  /\ pc = "return"
  /\ args.numbers = StatisticsExample
  /\ ret = [mean |-> IntV(30), median |-> IntV(30),
            std_dev |-> [t |-> "sqrt", n |-> 200, d |-> 1, s |-> <<>>]]

\* an unsorted list of four numbers whose two middle elements differ by one
\* gives a median between them
C12_WitnessEven ==
  /\ pc = "return"
  /\ Len(args.numbers) = 4
  /\ args.numbers /= sorted(args.numbers)
  /\ ret.median.d = 2

(***************************************************************************)
(* filter_outliers(data, method)                                           *)
(***************************************************************************)
\* a variant that takes the quartiles at a quarter and three quarters of
\* n - 1
QuartileOfLast(sorted_data, k) ==
  sorted_data[(k * (Len(sorted_data) - 1)) \div 4 + 1]

\* lines 85-86: sorted_data[(k * n) // 4], on Python's indices from 0
Quartile(sorted_data, k) == sorted_data[(k * Len(sorted_data)) \div 4 + 1]

\* lines 83-90
FilterIqr(data) ==
  LET sorted_data == sorted(data)
      q1 == Quartile(sorted_data, 1)
      q3 == Quartile(sorted_data, 3)
      iqr == NumSub(q3, q1)
      lower_bound == NumSub(q1, NumMul(NumV(3, 2), iqr))
      upper_bound == NumAdd(q3, NumMul(NumV(3, 2), iqr))
  IN  SelectSeq(data, LAMBDA x : NumLeq(lower_bound, x) /\ NumLeq(x, upper_bound))

\* lines 94-98, in exact arithmetic: abs(x - mean) <= 3 * std_dev iff
\* (x - mean) ** 2 <= 9 * variance
FilterStd(data) ==
  LET mean == NumOver(SumOf(data), Len(data))
      variance == Variance(data, mean)
  IN  SelectSeq(data, LAMBDA x :
                  NumLeq(NumMul(NumSub(x, mean), NumSub(x, mean)),
                         NumMul(IntV(9), variance)))

filter_outliers(data, method) ==
  IF data = <<>> THEN <<>>
  ELSE IF method = "iqr" THEN FilterIqr(data)
  ELSE IF method = "std" THEN FilterStd(data)
  ELSE data

\* data_with_outliers of run_examples
DataWithOutliers ==
  <<IntV(10), IntV(12), IntV(13), IntV(12), IntV(11), IntV(13), IntV(100),
    IntV(12), IntV(11), IntV(14), IntV(1)>>

Methods == {"iqr", "std", "mean"}

InitOutliers ==
  /\ pc = "call"
  /\ heap = <<>>
  /\ args \in [data : SeqsUpTo(Numbers, MaxData) \cup {DataWithOutliers},
               method : Methods]
  /\ ret = <<>>
  /\ NoPipeline

CallOutliers == Returns(filter_outliers(args.data, args.method))

SpecOutliers == InitOutliers /\ [][CallOutliers]_vars

\* C13: on non-empty data filter_outliers(data, 'iqr') takes Q1 at index
\* floor(n/4) and Q3 at index floor(3n/4) of the sorted data, both within
\* range, and returns exactly the elements x of data with
\* Q1 - 1.5*(Q3-Q1) <= x <= Q3 + 1.5*(Q3-Q1), in the order of data.
C13_IqrByIndex ==
  pc = "return" /\ args.method = "iqr" /\ args.data /= <<>> =>
    LET data == args.data
        n == Len(data)
        q1 == KthSmallest(data, n \div 4 + 1).n
        q3 == KthSmallest(data, (3 * n) \div 4 + 1).n
    IN  /\ n \div 4 \in 0..(n - 1)
        /\ (3 * n) \div 4 \in 0..(n - 1)
        /\ ret = Pick(data,
                      {i \in DOMAIN data :
                         /\ 2 * q1 - 3 * (q3 - q1) <= 2 * data[i].n
                         /\ 2 * data[i].n <= 2 * q3 + 3 * (q3 - q1)})

\* the call of run_examples took Q1 = 11 and Q3 = 13 and dropped 100 and 1
C13_Witness ==
  /\ pc = "return"
  /\ args = [data |-> DataWithOutliers, method |-> "iqr"]
  /\ ret = <<IntV(10), IntV(12), IntV(13), IntV(12), IntV(11), IntV(13),
             IntV(12), IntV(11), IntV(14)>>

(***************************************************************************)
(* What clean_dataset changes of the data of its caller.                   *)
(***************************************************************************)
InCall == pc \in {"duplicates", "missing", "strings", "filters", "final", "done"}

\* the record objects left by duplicate removal and required-field
\* filtering, on the records as the call received them
Survivors ==
  LET s1 == IF DuplicatesEnabled(config)
              THEN remove_duplicate_dicts(entry.heap, entry.records,
                                          Lookup(config, "duplicate_key"))
              ELSE entry.records
      s2 == IF Enabled(config, "required_fields")
              THEN remove_records_with_missing_fields(
                     entry.heap, s1, Lookup(config, "required_fields"))
              ELSE s1
  IN  Range(s2)

\* the item is a string under a field of string_fields
IsStringField(item) ==
  /\ Enabled(config, "string_fields")
  /\ item.k \in Range(Lookup(config, "string_fields"))
  /\ IsStr(item.v)

Cleaned(item) == Item(item.k, StrV(clean_whitespace(item.v.s)))

\* C14: the only change clean_dataset makes to the data of its caller is the
\* whitespace normalization of the string values under the fields of
\* string_fields, made in place in exactly the records that survived
\* duplicate removal and required-field filtering: the list of the caller
\* keeps its length and order, the records those two stages dropped are
\* unchanged, and no other field and no value that is not a string changes.
C14_OnlySurvivorsNormalized ==
  InCall =>
    LET survivors == Survivors
    IN  /\ records = entry.records
        /\ DOMAIN heap = DOMAIN entry.heap
        /\ \A o \in DOMAIN heap :
             /\ DOMAIN heap[o] = DOMAIN entry.heap[o]
             /\ \A i \in DOMAIN heap[o] :
                  LET old == entry.heap[o][i]
                      new == heap[o][i]
                  IN  /\ new /= old =>
                           /\ o \in survivors
                           /\ IsStringField(old)
                           /\ new = Cleaned(old)
                      /\ Done /\ IsStringField(old) /\ o \in survivors =>
                           new = Cleaned(old)

Unclean(item) == IsStr(item.v) /\ Cleaned(item) /= item

\* a call returned with a dropped record that still holds its unclean
\* string under a field of string_fields, and a survivor whose string under
\* such a field was cleaned while its unclean string under another field
\* was left
C14_Witness ==
  /\ Done
  /\ prev = <<>>
  /\ Enabled(config, "string_fields")
  /\ \E o \in Range(records) \ Survivors :
       /\ heap[o] = entry.heap[o]
       /\ \E i \in DOMAIN heap[o] : IsStringField(heap[o][i]) /\ Unclean(heap[o][i])
  /\ \E o \in Survivors :
       /\ \E i \in DOMAIN heap[o] :
            Unclean(entry.heap[o][i]) /\ heap[o][i] = Cleaned(entry.heap[o][i])
       /\ \E i \in DOMAIN heap[o] :
            Unclean(heap[o][i]) /\ heap[o][i] = entry.heap[o][i]

\* a survivor holds None under a field of string_fields, before and after
C14_WitnessNone ==
  /\ Done
  /\ prev = <<>>
  /\ Enabled(config, "string_fields")
  /\ \E o \in Survivors :
       /\ heap[o] /= entry.heap[o]
       /\ \E i \in DOMAIN heap[o] :
            /\ heap[o][i].k \in Range(Lookup(config, "string_fields"))
            /\ IsNone(heap[o][i].v)

\* a list that holds one record object twice: the second place is dropped
\* as a duplicate, and the object, which survives at the first place, is
\* cleaned
C14_WitnessSameObject ==
  /\ Done
  /\ prev = <<>>
  /\ records = <<1, 1>>
  /\ results.removed_duplicates = 1
  /\ heap[1] /= entry.heap[1]

====
